---- MODULE Spec2Model ----
(***************************************************************************)
(* A model of api-scripts/create-or-update-dataset.py: the script that     *)
(* loads an MCF (a nested metadata document), validates its license        *)
(* against the catalog's license list, looks the dataset up in the CKAN    *)
(* catalog, creates it when it is not found and attaches the MCF file as   *)
(* a resource when the record has no resources.                            *)
(*                                                                         *)
(* Python strings are sequences of atoms (an atom is one character or one  *)
(* indivisible run of characters); the atoms ".", " ", "-" and "/" are the *)
(* characters the code looks at.  Python values are tagged records.        *)
(***************************************************************************)
EXTENDS Integers, Sequences, FiniteSets, TLC

VARIABLES
    pc,          \* position of the current run of main(), "idle" between runs
    mcf,         \* the document loaded at line 123
    licenses,    \* the list returned by license_list() at line 133
    pkg_dict,    \* the record obtained at line 151 or 167
    calls,       \* the catalog calls issued by the current run, in order
    exc,         \* the exception raised in the current run, "none" if none
    caught,      \* whether the handler of line 225 caught it
    catalog,     \* the dataset records the remote catalog holds
    catalog0,    \* the catalog as it was when the current run began
    local_file,  \* the content of the local metadata file, sys.argv[1]
    runs,        \* completed runs
    created,     \* package_create calls issued over all runs
    committed,   \* package_create calls that created a record, over all runs
    attached,    \* resource_create calls that attached a resource, over all runs
    fn_args,     \* the arguments of a call of one function on its own
    fn_ret       \* what that call returned or raised

vars == <<pc, mcf, licenses, pkg_dict, calls, exc, caught, catalog, catalog0,
          local_file, runs, created, committed, attached, fn_args, fn_ret>>

main_vars == <<pc, mcf, licenses, pkg_dict, calls, exc, caught, catalog,
               catalog0, local_file, runs, created, committed, attached>>

(***************************************************************************)
(* Bounds of the model.                                                    *)
(***************************************************************************)
MaxRuns == 4        \* sequential runs of main()
MaxNameLen == 3     \* atoms in a license name handed to _find_license
MaxUrlLen == 2      \* atoms in a license URL handed to _find_license
MaxLicenses == 2    \* entries of a known-licenses list
MaxPathLen == 3     \* atoms in a dotted path handed to _get_from_mcf

EPSG_WGS84 == 4326

(***************************************************************************)
(* Python values.                                                          *)
(***************************************************************************)
Str(s) == [t |-> "str", s |-> s]
Dict(m) == [t |-> "dict", m |-> m]
List(l) == [t |-> "list", l |-> l]
PyInt(n) == [t |-> "int", n |-> n]
PyNone == [t |-> "None"]

\* bool(value): empty strings, mappings and lists, 0 and None are false.
Truthy(v) ==
    CASE v.t = "str" -> v.s # <<>>
      [] v.t = "dict" -> DOMAIN v.m # {}
      [] v.t = "list" -> v.l # <<>>
      [] v.t = "int" -> v.n # 0
      [] OTHER -> FALSE

\* The sequences over S of length at most n.
SeqsUpTo(S, n) == UNION {[1..k -> S] : k \in 0..n}

\* What a function call produces: a value, or an exception; and what it logged.
Return(v, w) == [exc |-> "none", value |-> v, warnings |-> w]
Raise(e) == [exc |-> e, value |-> PyNone, warnings |-> <<>>]

(***************************************************************************)
(* _get_from_mcf (lines 76-102).                                           *)
(***************************************************************************)
\* str.split('.'): the segments between the "." atoms, empty ones included.
RECURSIVE Split(_)
Split(s) ==
    IF \A i \in 1..Len(s) : s[i] # "."
    THEN <<s>>
    ELSE LET i == CHOOSE j \in 1..Len(s) :
                      s[j] = "." /\ \A k \in 1..(j - 1) : s[k] # "."
         IN <<SubSeq(s, 1, i - 1)>> \o Split(SubSeq(s, i + 1, Len(s)))

\* The while loop of lines 93-100 and the two lines after it.  Indexing a
\* mapping by an absent key raises KeyError, which the loop catches; indexing
\* a string, a list, a number or None by a string raises TypeError, which
\* nothing catches.
RECURSIVE GetFromMcfLoop(_, _, _)
GetFromMcfLoop(current_mcf_value, mcf_keys, dot_keys) ==
    LET key == Head(mcf_keys)
        rest == Tail(mcf_keys)
    IN  IF current_mcf_value.t # "dict"
        THEN Raise("TypeError")
        ELSE IF key \notin DOMAIN current_mcf_value.m
        THEN Return(Str(<<>>), <<[dot_keys |-> dot_keys, key |-> key]>>)
        ELSE IF rest = <<>>
        THEN Return(current_mcf_value.m[key], <<>>)
        ELSE GetFromMcfLoop(current_mcf_value.m[key], rest, dot_keys)

_get_from_mcf(doc, dot_keys) == GetFromMcfLoop(doc, Split(dot_keys), dot_keys)

(***************************************************************************)
(* _find_license (lines 46-73).                                            *)
(***************************************************************************)
\* str.upper on one atom: "cc-by" is the only atom with lower-case letters.
Upper(c) == IF c = "cc-by" THEN "CC-BY" ELSE c

UpperStr(s) == [i \in 1..Len(s) |-> Upper(s[i])]

RECURSIVE LStrip(_)
LStrip(s) == IF s # <<>> /\ Head(s) = " " THEN LStrip(Tail(s)) ELSE s

RECURSIVE RStrip(_)
RStrip(s) ==
    IF s # <<>> /\ s[Len(s)] = " " THEN RStrip(SubSeq(s, 1, Len(s) - 1)) ELSE s

Strip(s) == RStrip(LStrip(s))

Replace(s, old, new) == [i \in 1..Len(s) |-> IF s[i] = old THEN new ELSE s[i]]

\* lines 51-52
Sanitize(license_string) == UpperStr(Replace(Strip(license_string), " ", "-"))

EndsWith(s, c) == s # <<>> /\ s[Len(s)] = c

\* lines 55-56
NormalizeUrl(license_url) ==
    IF ~EndsWith(license_url, "/") THEN license_url \o <<"/">> ELSE license_url

\* d[k] = v on a Python dict, held as a function.
DictSet(d, k, v) == [x \in (DOMAIN d) \cup {k} |-> IF x = k THEN v ELSE d[x]]

\* line 62: the URL index after the first n entries of known_licenses.
RECURSIVE UrlToLicenseId(_, _)
UrlToLicenseId(known_licenses, n) ==
    IF n = 0 THEN <<>>
    ELSE DictSet(UrlToLicenseId(known_licenses, n - 1),
                 known_licenses[n].url, known_licenses[n].id)

\* lines 65-66: the legacy ids of one entry added to the title index.
RECURSIVE AddLegacyIds(_, _, _, _)
AddLegacyIds(d, legacy_ids, n, license_id) ==
    IF n = 0 THEN d
    ELSE DictSet(AddLegacyIds(d, legacy_ids, n - 1, license_id),
                 legacy_ids[n], license_id)

\* lines 63-66: the title index after the first n entries of known_licenses.
RECURSIVE StringToLicenseId(_, _)
StringToLicenseId(known_licenses, n) ==
    IF n = 0 THEN <<>>
    ELSE LET license_data == known_licenses[n]
             d == DictSet(StringToLicenseId(known_licenses, n - 1),
                          license_data.title, license_data.id)
         IN  IF "legacy_ids" \in DOMAIN license_data
             THEN AddLegacyIds(d, license_data.legacy_ids,
                               Len(license_data.legacy_ids), license_data.id)
             ELSE d

\* d[k] on a Python dict: the value, or KeyError.
DictGet(d, k) == IF k \in DOMAIN d THEN Return(d[k], <<>>) ELSE Raise("KeyError")

_find_license(license_string, license_url, known_licenses) ==
    LET sanitized_license_string == Sanitize(license_string)
        url == NormalizeUrl(license_url)
        string_to_licenseid ==
            StringToLicenseId(known_licenses, Len(known_licenses))
        url_to_licenseid == UrlToLicenseId(known_licenses, Len(known_licenses))
    IN  IF url # <<>>
        THEN DictGet(url_to_licenseid, url)
        ELSE DictGet(string_to_licenseid, sanitized_license_string)

(***************************************************************************)
(* _create_tags_dicts (lines 105-107) and _get_wgs84_bbox (lines 110-117). *)
(***************************************************************************)
K(a) == <<a>>

\* value[key] for a string key (lines 96, 112, 114, 162-172).
Index(v, key) ==
    IF v.t # "dict" THEN Raise("TypeError")
    ELSE IF key \notin DOMAIN v.m THEN Raise("KeyError")
    ELSE Return(v.m[key], <<>>)

\* value[0]
First(v) ==
    CASE v.t = "list" -> IF v.l = <<>> THEN Raise("IndexError")
                         ELSE Return(v.l[1], <<>>)
      [] v.t = "str" -> IF v.s = <<>> THEN Raise("IndexError")
                        ELSE Return(Str(<<v.s[1]>>), <<>>)
      [] v.t = "dict" -> Raise("KeyError")
      [] OTHER -> Raise("TypeError")

\* The comprehension of line 107 iterates a list by element and a string by
\* character; the documents of the model hold a list of keywords or none.
_create_tags_dicts(doc) ==
    LET tags_list == _get_from_mcf(doc, <<"identification", ".", "keywords">>)
    IN  IF tags_list.exc # "none" THEN Raise(tags_list.exc)
        ELSE CASE tags_list.value.t = "list" ->
                    Return(List([i \in 1..Len(tags_list.value.l) |->
                                    Dict(K("name") :> tags_list.value.l[i])]),
                           <<>>)
               [] tags_list.value.t = "str" ->
                    Return(List([i \in 1..Len(tags_list.value.s) |->
                                    Dict(K("name") :> Str(<<tags_list.value.s[i]>>))]),
                           <<>>)
               [] OTHER -> Raise("TypeError")

\* The ring of lines 116-117.
Ring(minx, miny, maxx, maxy) ==
    <<<< <<minx, maxy>>, <<minx, miny>>, <<maxx, miny>>, <<maxx, maxy>>,
         <<minx, maxy>> >>>>

\* _get_wgs84_bbox without the assertion of line 112.
_get_wgs84_bbox_unchecked(doc) ==
    LET spatial == _get_from_mcf(
            doc, <<"identification", ".", "extents", ".", "spatial">>)
        extent == First(spatial.value)
        bbox == Index(extent.value, K("bbox"))
    IN  IF spatial.exc # "none" THEN Raise(spatial.exc)
        ELSE IF extent.exc # "none" THEN Raise(extent.exc)
        ELSE IF bbox.exc # "none" THEN Raise(bbox.exc)
        ELSE IF bbox.value.t # "list" \/ Len(bbox.value.l) # 4
        THEN Raise("ValueError")
        ELSE Return(Ring(bbox.value.l[1], bbox.value.l[2],
                         bbox.value.l[3], bbox.value.l[4]), <<>>)

_get_wgs84_bbox(doc) ==
    LET spatial == _get_from_mcf(
            doc, <<"identification", ".", "extents", ".", "spatial">>)
        extent == First(spatial.value)
        crs == Index(extent.value, K("crs"))
        bbox == Index(extent.value, K("bbox"))
    IN  IF spatial.exc # "none" THEN Raise(spatial.exc)
        ELSE IF extent.exc # "none" THEN Raise(extent.exc)
        ELSE IF crs.exc # "none" THEN Raise(crs.exc)
        ELSE IF crs.value.t # "int" THEN Raise("TypeError")
        ELSE IF crs.value.n # EPSG_WGS84 THEN Raise("AssertionError")
        ELSE IF bbox.exc # "none" THEN Raise(bbox.exc)
        ELSE IF bbox.value.t # "list" \/ Len(bbox.value.l) # 4
        THEN Raise("ValueError")
        ELSE Return(Ring(bbox.value.l[1], bbox.value.l[2],
                         bbox.value.l[3], bbox.value.l[4]), <<>>)

(***************************************************************************)
(* The documents a run may load (line 123), the catalog's license list     *)
(* and the catalog's datasets.                                             *)
(***************************************************************************)
Absent == [t |-> "absent"]

\* One key of a mapping, or none when the document leaves the field out.
Opt(key, v) == IF v = Absent THEN <<>> ELSE key :> v

Identifier == <<"my-dataset">>

LicenseByUrl ==
    Dict(K("name") :> Str(<<"CC-BY", " ", "4.0">>) @@
         K("url") :> Str(<<"http://cc">>))
LicenseByName ==
    Dict(K("name") :> Str(<<"CC-BY", " ", "4.0">>) @@ K("url") :> Str(<<>>))
LicenseUnknown ==
    Dict(K("name") :> Str(<<"CC-BY", " ", "4.0">>) @@
         K("url") :> Str(<<"http://other">>))
LicenseDecls ==
    {Absent, Dict(<<>>), LicenseByUrl, LicenseByName, LicenseUnknown,
     Str(<<"CC-BY">>)}

CrsCodes == {EPSG_WGS84, 3857}

Contact(individualname) ==
    Dict(K("main") :> Dict(K("individualname") :> Str(individualname) @@
                           K("organization") :> Str(<<"NatCap">>) @@
                           K("email") :> Str(<<"ann@natcap">>)))
Contacts == {Absent, Contact(<<"Ann">>), Contact(<<>>), List(<<>>)}

MkMcf(license, crs, contact) ==
    Dict(K("metadata") :> Dict(K("identifier") :> Str(Identifier)) @@
         K("identification") :>
            Dict(K("title") :> Str(<<"My", " ", "dataset">>) @@
                 K("abstract") :> Str(<<"abstract">>) @@
                 K("keywords") :> List(<<Str(<<"water">>), Str(<<"soil">>)>>) @@
                 K("extents") :>
                    Dict(K("spatial") :>
                        List(<<Dict(K("crs") :> PyInt(crs) @@
                                    K("bbox") :>
                                        List(<<PyInt(10), PyInt(20),
                                               PyInt(30), PyInt(40)>>))>>)) @@
                 Opt(K("license"), license)) @@
         Opt(K("contact"), contact))

Docs == {MkMcf(l, c, k) : l \in LicenseDecls, c \in CrsCodes, k \in Contacts}

\* What license_list() returns.
CatalogLicenses ==
    <<[id |-> "CC-BY-4.0", title |-> <<"CC-BY", " ", "4.0">>,
       url |-> <<"http://cc", "/">>, legacy_ids |-> << <<"cc-by">> >>],
      [id |-> "notspecified", title |-> <<"unspecified">>, url |-> <<>>]>>

\* The id the catalog gives its n-th record.
Id(n) == [i \in 1..(n + 1) |-> IF i = 1 THEN "uuid" ELSE "i"]

NoRecord == [id |-> PyNone]

OtherDataset ==
    [id |-> Str(Id(1)), name |-> Str(<<"other-dataset">>),
     title |-> Str(<<"Other">>), fields |-> PyNone,
     resources |-> <<[name |-> "other.tif", hash |-> <<"sha256:", "digest 8">>]>>]

Existing(resources) ==
    [id |-> Str(Id(2)), name |-> Str(Identifier),
     title |-> Str(<<"Old", " ", "title">>), fields |-> PyNone,
     resources |-> resources]

InitialCatalogs ==
    {<<OtherDataset>>,
     <<OtherDataset, Existing(<<>>)>>,
     <<OtherDataset, Existing(<<[name |-> "data.tif", hash |-> <<"sha256:", "digest 9">>]>>)>>}

Files == {"mcf v1", "mcf v2"}

\* _hash_file_sha256 (lines 30-38): the digest of the file's content.
_hash_file_sha256(content) == IF content = "mcf v1" THEN "digest 1" ELSE "digest 2"

\* What a catalog call may raise besides what its own result says.
Failures == {"CKANAPIError", "AttributeError", "NotFound"}

(***************************************************************************)
(* main (lines 120-226), one action per catalog call and per local step.   *)
(***************************************************************************)
Title(doc) == _get_from_mcf(doc, <<"identification", ".", "title">>)     \* 144
Name(doc) == _get_from_mcf(doc, <<"metadata", ".", "identifier">>)       \* 145

\* The validation with the failure of _find_license swallowed.
ValidateLicense_unchecked(doc, known_licenses) ==
    LET license == _get_from_mcf(doc, <<"identification", ".", "license">>)
        name == _get_from_mcf(
            doc, <<"identification", ".", "license", ".", "name">>)
        url == _get_from_mcf(
            doc, <<"identification", ".", "license", ".", "url">>)
    IN  IF license.exc # "none" THEN license.exc
        ELSE IF ~Truthy(license.value) THEN "none"
        ELSE IF name.exc # "none" THEN name.exc
        ELSE IF url.exc # "none" THEN url.exc
        ELSE "none"

\* Lines 136-145: the exception the license validation and the two lookups
\* after it raise, "none" if none.  str.strip and str.endswith exist on
\* strings only.
ValidateLicense(doc, known_licenses) ==
    LET license == _get_from_mcf(doc, <<"identification", ".", "license">>)
        name == _get_from_mcf(
            doc, <<"identification", ".", "license", ".", "name">>)
        url == _get_from_mcf(
            doc, <<"identification", ".", "license", ".", "url">>)
    IN  IF license.exc # "none" THEN license.exc
        ELSE IF ~Truthy(license.value) THEN "none"
        ELSE IF name.exc # "none" THEN name.exc
        ELSE IF url.exc # "none" THEN url.exc
        ELSE IF name.value.t # "str" \/ url.value.t # "str"
        THEN "AttributeError"
        ELSE _find_license(name.value.s, url.value.s, known_licenses).exc

Validation(doc, known_licenses) ==
    LET e == ValidateLicense(doc, known_licenses)
    IN  IF e # "none" THEN e
        ELSE IF Title(doc).exc # "none" THEN Title(doc).exc
        ELSE Name(doc).exc

\* json.dumps: the serialised text of a value.
JsonDumps(v) == [json |-> v]

\* Lines 158-191: the keyword arguments of package_create, evaluated in
\* order, or the first exception their evaluation raises.  A contact mapping
\* of the model has one entry, which is its first.
PackageCreateArgs(doc) ==
    LET contact == Index(doc, K("contact"))
        first_contact_info ==
            contact.value.m[CHOOSE k \in DOMAIN contact.value.m : TRUE]
        individualname == Index(first_contact_info, K("individualname"))
        organization == Index(first_contact_info, K("organization"))
        author == IF Truthy(individualname.value) THEN individualname
                                                  ELSE organization
        author_email == Index(first_contact_info, K("email"))
        notes == _get_from_mcf(doc, <<"identification", ".", "abstract">>)
        url == _get_from_mcf(doc, <<"identification", ".", "url">>)
        version == _get_from_mcf(doc, <<"identification", ".", "edition">>)
        tags == _create_tags_dicts(doc)
        coordinates == _get_wgs84_bbox(doc)
    IN  IF contact.exc # "none" THEN Raise(contact.exc)
        ELSE IF contact.value.t # "dict" THEN Raise("AttributeError")
        ELSE IF DOMAIN contact.value.m = {} THEN Raise("IndexError")
        ELSE IF individualname.exc # "none" THEN Raise(individualname.exc)
        ELSE IF author.exc # "none" THEN Raise(author.exc)
        ELSE IF author_email.exc # "none" THEN Raise(author_email.exc)
        ELSE IF notes.exc # "none" THEN Raise(notes.exc)
        ELSE IF url.exc # "none" THEN Raise(url.exc)
        ELSE IF version.exc # "none" THEN Raise(version.exc)
        ELSE IF tags.exc # "none" THEN Raise(tags.exc)
        ELSE IF coordinates.exc # "none" THEN Raise(coordinates.exc)
        ELSE Return([name |-> Name(doc).value,
                     title |-> Title(doc).value,
                     private |-> FALSE,
                     author |-> author.value,
                     author_email |-> author_email.value,
                     owner_org |-> "natcap",
                     notes |-> notes.value,
                     url |-> url.value,
                     version |-> version.value,
                     groups |-> <<>>,
                     tags |-> tags.value,
                     extras |-> <<[key |-> "spatial",
                                   value |-> JsonDumps(
                                       [type |-> "Polygon",
                                        coordinates |-> coordinates.value])]>>],
                    <<>>)

\* Lines 205-223: the keyword arguments of resource_create.
ResourceCreateArgs(record, content) ==
    [package_id |-> record.id,
     description |-> "Metadata Control File for this dataset",
     format |-> "YML",
     hash |-> <<"sha256:", _hash_file_sha256(content)>>,
     name |-> "mcf.yml",
     mimetype |-> "application/yaml",
     upload |-> content]

\* The catalog: package_show's matches, the record package_create adds and
\* the catalog after resource_create.
Matches(records, name_or_id) ==
    {i \in 1..Len(records) :
        records[i].name = name_or_id \/ records[i].id = name_or_id}

NewRecord(records, args) ==
    [id |-> Str(Id(Len(records) + 1)), name |-> args.name,
     title |-> args.title, fields |-> args, resources |-> <<>>]

WithResource(records, args) ==
    [i \in 1..Len(records) |->
        IF records[i].id = args.package_id \/ records[i].name = args.package_id
        THEN [records[i] EXCEPT !.resources = Append(@, args)]
        ELSE records[i]]

Call(op, args, raised, ret) ==
    [op |-> op, args |-> args, raised |-> raised, ret |-> ret]

\* An exception leaves main(): the run ends with a traceback.
Propagate(e) == pc' = "failed" /\ exc' = e /\ caught' = FALSE

\* The handler of line 225 as a bare except: every exception is caught.
Except_catch_all(e) == pc' = "done" /\ exc' = e /\ caught' = TRUE

\* An exception raised inside the try block of lines 146-226: the handler of
\* line 225 catches AttributeError, prints the client's operations, and
\* main() returns; anything else leaves main().
Except(e) ==
    IF e = "AttributeError"
    THEN pc' = "done" /\ exc' = e /\ caught' = TRUE
    ELSE Propagate(e)

Idle ==
    /\ pc = "idle"
    /\ mcf = PyNone
    /\ licenses = <<>>
    /\ pkg_dict = NoRecord
    /\ calls = <<>>
    /\ exc = "none"
    /\ caught = FALSE
    /\ catalog0 = <<>>

Init ==
    /\ Idle
    /\ catalog \in InitialCatalogs
    /\ local_file \in Files
    /\ runs = 0
    /\ created = 0
    /\ committed = 0
    /\ attached = 0
    /\ fn_args = PyNone
    /\ fn_ret = PyNone

\* Lines 121-128: a run begins; the file may have been edited since the last.
Begin ==
    /\ pc = "idle"
    /\ runs < MaxRuns
    /\ mcf' \in Docs
    /\ local_file' \in Files
    /\ catalog0' = catalog
    /\ pc' = "organization_list"
    /\ UNCHANGED <<licenses, pkg_dict, calls, exc, caught, catalog, runs,
                   created, committed, attached, fn_args, fn_ret>>

\* Line 129.
OrganizationList ==
    /\ pc = "organization_list"
    /\ calls' = Append(calls, Call("organization_list", "natcap", "none", PyNone))
    /\ pc' = "license_list"
    /\ UNCHANGED <<mcf, licenses, pkg_dict, exc, caught, catalog, catalog0,
                   local_file, runs, created, committed, attached, fn_args,
                   fn_ret>>

OrganizationListFails ==
    /\ pc = "organization_list"
    /\ \E e \in Failures :
        /\ calls' = Append(calls, Call("organization_list", "natcap", e, PyNone))
        /\ Propagate(e)
    /\ UNCHANGED <<mcf, licenses, pkg_dict, catalog, catalog0, local_file,
                   runs, created, committed, attached, fn_args, fn_ret>>

\* Line 133.
LicenseList ==
    /\ pc = "license_list"
    /\ calls' = Append(calls, Call("license_list", PyNone, "none", PyNone))
    /\ licenses' = CatalogLicenses
    /\ pc' = "validate"
    /\ UNCHANGED <<mcf, pkg_dict, exc, caught, catalog, catalog0, local_file,
                   runs, created, committed, attached, fn_args, fn_ret>>

LicenseListFails ==
    /\ pc = "license_list"
    /\ \E e \in Failures :
        /\ calls' = Append(calls, Call("license_list", PyNone, e, PyNone))
        /\ Propagate(e)
    /\ UNCHANGED <<mcf, licenses, pkg_dict, catalog, catalog0, local_file,
                   runs, created, committed, attached, fn_args, fn_ret>>

\* Lines 136-145, outside the try block.
Validate ==
    /\ pc = "validate"
    /\ LET e == Validation(mcf, licenses)
       IN  IF e = "none"
           THEN pc' = "package_show" /\ UNCHANGED <<exc, caught>>
           ELSE Propagate(e)
    /\ UNCHANGED <<mcf, licenses, pkg_dict, calls, catalog, catalog0,
                   local_file, runs, created, committed, attached, fn_args,
                   fn_ret>>

\* The lookup by the title instead of the identifier.
LookupKey_title(doc) == Title(doc).value

\* Line 151: the name_or_id the lookup is given.
LookupKey(doc) == Name(doc).value

\* The lookup finds the record and the run creates it all the same.
PackageShowFound_recreates ==
    /\ pc = "package_show"
    /\ \E i \in Matches(catalog, LookupKey(mcf)) :
        /\ pkg_dict' = catalog[i]
        /\ calls' = Append(calls, Call("package_show", LookupKey(mcf),
                                       "none", catalog[i]))
    /\ pc' = "package_create"
    /\ UNCHANGED <<mcf, licenses, exc, caught, catalog, catalog0, local_file,
                   runs, created, committed, attached, fn_args, fn_ret>>

\* Lines 148-152: the lookup finds a record with that name.
PackageShowFound ==
    /\ pc = "package_show"
    /\ \E i \in Matches(catalog, LookupKey(mcf)) :
        /\ pkg_dict' = catalog[i]
        /\ calls' = Append(calls, Call("package_show", LookupKey(mcf),
                                       "none", catalog[i]))
    /\ pc' = "resource_check"
    /\ UNCHANGED <<mcf, licenses, exc, caught, catalog, catalog0, local_file,
                   runs, created, committed, attached, fn_args, fn_ret>>

\* Lines 151-155: the catalog holds no such record and the lookup raises
\* NotFound, which the handler of line 153 catches.
PackageShowNotFound ==
    /\ pc = "package_show"
    /\ Matches(catalog, LookupKey(mcf)) = {}
    /\ calls' = Append(calls, Call("package_show", LookupKey(mcf),
                                   "NotFound", PyNone))
    /\ pc' = "package_create"
    /\ UNCHANGED <<mcf, licenses, pkg_dict, exc, caught, catalog, catalog0,
                   local_file, runs, created, committed, attached, fn_args,
                   fn_ret>>

\* Line 151: the lookup raises anything else.
PackageShowFails ==
    /\ pc = "package_show"
    /\ \E e \in Failures \ {"NotFound"} :
        /\ calls' = Append(calls, Call("package_show", LookupKey(mcf),
                                       e, PyNone))
        /\ Except(e)
    /\ UNCHANGED <<mcf, licenses, pkg_dict, catalog, catalog0, local_file,
                   runs, created, committed, attached, fn_args, fn_ret>>

\* Lines 158-191: evaluating the arguments of package_create raises.
PackageCreateArgsFail ==
    /\ pc = "package_create"
    /\ PackageCreateArgs(mcf).exc # "none"
    /\ Except(PackageCreateArgs(mcf).exc)
    /\ UNCHANGED <<mcf, licenses, pkg_dict, calls, catalog, catalog0,
                   local_file, runs, created, committed, attached, fn_args,
                   fn_ret>>

\* Lines 167-192: the catalog creates the record and returns it.
PackageCreate ==
    /\ pc = "package_create"
    /\ PackageCreateArgs(mcf).exc = "none"
    /\ LET args == PackageCreateArgs(mcf).value
           record == NewRecord(catalog, args)
       IN  /\ catalog' = Append(catalog, record)
           /\ pkg_dict' = record
           /\ calls' = Append(calls, Call("package_create", args, "none", record))
    /\ created' = created + 1
    /\ committed' = committed + 1
    /\ pc' = "resource_check"
    /\ UNCHANGED <<mcf, licenses, exc, caught, catalog0, local_file, runs,
                   attached, fn_args, fn_ret>>

\* Line 167: the call raises; the catalog may or may not have created the
\* record before the failure reached the client.
PackageCreateFails ==
    /\ pc = "package_create"
    /\ PackageCreateArgs(mcf).exc = "none"
    /\ \E e \in Failures, applied \in BOOLEAN :
        LET args == PackageCreateArgs(mcf).value
        IN  /\ catalog' = IF applied
                          THEN Append(catalog, NewRecord(catalog, args))
                          ELSE catalog
            /\ committed' = IF applied THEN committed + 1 ELSE committed
            /\ calls' = Append(calls, Call("package_create", args, e, PyNone))
            /\ Except(e)
    /\ created' = created + 1
    /\ UNCHANGED <<mcf, licenses, pkg_dict, catalog0, local_file, runs,
                   attached, fn_args, fn_ret>>

\* The test of line 203 inverted.
ResourceCheck_inverted ==
    /\ pc = "resource_check"
    /\ LET attached_resources == pkg_dict.resources
       IN  pc' = IF attached_resources # <<>> THEN "resource_create" ELSE "done"
    /\ UNCHANGED <<mcf, licenses, pkg_dict, calls, exc, caught, catalog,
                   catalog0, local_file, runs, created, committed, attached,
                   fn_args, fn_ret>>

\* The test of line 203 left out: the file is attached on every run.
ResourceCheck_always ==
    /\ pc = "resource_check"
    /\ pc' = "resource_create"
    /\ UNCHANGED <<mcf, licenses, pkg_dict, calls, exc, caught, catalog,
                   catalog0, local_file, runs, created, committed, attached,
                   fn_args, fn_ret>>

\* Lines 200-203: attach only when the record has no resources.
ResourceCheck ==
    /\ pc = "resource_check"
    /\ LET attached_resources == pkg_dict.resources
       IN  pc' = IF attached_resources = <<>> THEN "resource_create" ELSE "done"
    /\ UNCHANGED <<mcf, licenses, pkg_dict, calls, exc, caught, catalog,
                   catalog0, local_file, runs, created, committed, attached,
                   fn_args, fn_ret>>

\* Lines 205-223: the catalog attaches the file to the record.
ResourceCreate ==
    /\ pc = "resource_create"
    /\ LET args == ResourceCreateArgs(pkg_dict, local_file)
       IN  /\ catalog' = WithResource(catalog, args)
           /\ calls' = Append(calls, Call("resource_create", args, "none", args))
    /\ attached' = attached + 1
    /\ pc' = "done"
    /\ UNCHANGED <<mcf, licenses, pkg_dict, exc, caught, catalog0, local_file,
                   runs, created, committed, fn_args, fn_ret>>

\* Line 205: the call raises; the catalog may or may not have attached the
\* file before the failure reached the client.
ResourceCreateFails ==
    /\ pc = "resource_create"
    /\ \E e \in Failures, applied \in BOOLEAN :
        LET args == ResourceCreateArgs(pkg_dict, local_file)
        IN  /\ catalog' = IF applied THEN WithResource(catalog, args)
                                     ELSE catalog
            /\ attached' = IF applied THEN attached + 1 ELSE attached
            /\ calls' = Append(calls, Call("resource_create", args, e, PyNone))
            /\ Except(e)
    /\ UNCHANGED <<mcf, licenses, pkg_dict, catalog0, local_file, runs,
                   created, committed, fn_args, fn_ret>>

\* The process exits; nothing of the run but the catalog outlives it.
Finish ==
    /\ pc \in {"done", "failed"}
    /\ pc' = "idle"
    /\ mcf' = PyNone
    /\ licenses' = <<>>
    /\ pkg_dict' = NoRecord
    /\ calls' = <<>>
    /\ exc' = "none"
    /\ caught' = FALSE
    /\ catalog0' = <<>>
    /\ runs' = runs + 1
    /\ UNCHANGED <<catalog, local_file, created, committed, attached, fn_args,
                   fn_ret>>

Next ==
    \/ Begin
    \/ OrganizationList
    \/ OrganizationListFails
    \/ LicenseList
    \/ LicenseListFails
    \/ Validate
    \/ PackageShowFound
    \/ PackageShowNotFound
    \/ PackageShowFails
    \/ PackageCreateArgsFail
    \/ PackageCreate
    \/ PackageCreateFails
    \/ ResourceCheck
    \/ ResourceCreate
    \/ ResourceCreateFails
    \/ Finish

Spec == Init /\ [][Next]_vars

(***************************************************************************)
(* _find_license and _get_from_mcf called on their own, over all inputs    *)
(* within the bounds.                                                      *)
(***************************************************************************)
NameAtoms == {"cc-by", "CC-BY", " ", "4.0"}
UrlAtoms == {"http://cc", "/"}
LicenseEntries ==
    {[id |-> "CC-BY-4.0", title |-> <<"CC-BY", " ", "4.0">>,
      url |-> <<"http://cc", "/">>,
      legacy_ids |-> << <<"CC-BY", "-", "4.0">> >>],
     [id |-> "notspecified", title |-> <<"CC-BY">>, url |-> <<>>],
     [id |-> "other", title |-> <<"4.0">>, url |-> <<"http://cc">>]}

FindLicenseInputs ==
    [op : {"_find_license"},
     license_string : SeqsUpTo(NameAtoms, MaxNameLen),
     license_url : SeqsUpTo(UrlAtoms, MaxUrlLen),
     known_licenses : SeqsUpTo(LicenseEntries, MaxLicenses)]

InitFindLicense ==
    /\ Idle
    /\ catalog = <<>>
    /\ local_file = "mcf v1"
    /\ runs = 0
    /\ created = 0
    /\ committed = 0
    /\ attached = 0
    /\ fn_args \in FindLicenseInputs
    /\ fn_ret = PyNone

CallFindLicense ==
    /\ fn_args.op = "_find_license"
    /\ fn_ret = PyNone
    /\ fn_ret' = _find_license(fn_args.license_string, fn_args.license_url,
                               fn_args.known_licenses)
    /\ UNCHANGED <<main_vars, fn_args>>

SpecFindLicense == InitFindLicense /\ [][CallFindLicense]_vars

PathAtoms == {"a", "b", "."}
Keys == {<<"a">>, <<"b">>}
Leaves == {Str(<<>>), Str(<<"x">>), List(<<Str(<<"x">>)>>)}
Mappings(values) == {Dict(m) : m \in UNION {[D -> values] : D \in SUBSET Keys}}
SmallDocs == Mappings(Leaves \cup Mappings(Leaves))

GetFromMcfInputs ==
    [op : {"_get_from_mcf"},
     mcf : SmallDocs,
     dot_keys : SeqsUpTo(PathAtoms, MaxPathLen)]

InitGetFromMcf ==
    /\ Idle
    /\ catalog = <<>>
    /\ local_file = "mcf v1"
    /\ runs = 0
    /\ created = 0
    /\ committed = 0
    /\ attached = 0
    /\ fn_args \in GetFromMcfInputs
    /\ fn_ret = PyNone

CallGetFromMcf ==
    /\ fn_args.op = "_get_from_mcf"
    /\ fn_ret = PyNone
    /\ fn_ret' = _get_from_mcf(fn_args.mcf, fn_args.dot_keys)
    /\ UNCHANGED <<main_vars, fn_args>>

SpecGetFromMcf == InitGetFromMcf /\ [][CallGetFromMcf]_vars

(***************************************************************************)
(* What the properties below speak of.                                     *)
(***************************************************************************)
CallsOf(op) == SelectSeq(calls, LAMBDA c : c.op = op)
Count(op) == Len(CallsOf(op))

LookupNotFound ==
    Count("package_show") = 1 /\ CallsOf("package_show")[1].raised = "NotFound"
LookupFound ==
    Count("package_show") = 1 /\ CallsOf("package_show")[1].raised = "none"
LookupFailed ==
    Count("package_show") = 1
    /\ CallsOf("package_show")[1].raised \notin {"none", "NotFound"}

RunEnded == pc \in {"done", "failed"}

\* The calls of the run that raised, the lookup's NotFound apart.
FailedCalls ==
    {i \in 1..Len(calls) :
        /\ calls[i].raised # "none"
        /\ ~(calls[i].op = "package_show" /\ calls[i].raised = "NotFound")}

\* The run returned from main() and nothing in it failed.
CompletedClean == pc = "done" /\ exc = "none" /\ FailedCalls = {}

\* The records of a catalog that carry the document's identifier.
Named(records) == {i \in 1..Len(records) : records[i].name = Str(Identifier)}

\* The catalog's records with their resource lists left out.
Fields(records) ==
    [i \in 1..Len(records) |-> [records[i] EXCEPT !.resources = <<>>]]

BadCrs ==
    /\ pc # "idle"
    /\ _get_from_mcf(mcf, <<"identification", ".", "extents", ".", "spatial">>)
           .value.l[1].m[K("crs")].n # EPSG_WGS84

\* The run validated a declared license and _find_license raised.
LicenseUnresolved ==
    LET license == _get_from_mcf(mcf, <<"identification", ".", "license">>)
        name == _get_from_mcf(
            mcf, <<"identification", ".", "license", ".", "name">>)
        url == _get_from_mcf(
            mcf, <<"identification", ".", "license", ".", "url">>)
    IN  /\ pc \notin {"idle", "organization_list", "license_list", "validate"}
        /\ Count("license_list") = 1
        /\ CallsOf("license_list")[1].raised = "none"
        /\ Truthy(license.value)
        /\ name.exc = "none" /\ name.value.t = "str"
        /\ url.exc = "none" /\ url.value.t = "str"
        /\ _find_license(name.value.s, url.value.s, licenses).exc # "none"

(***************************************************************************)
(* Properties of main(), checked under Spec.                               *)
(***************************************************************************)
\* The create-dataset and create-resource calls of the run, in order.
Mutations ==
    SelectSeq(calls, LAMBDA c : c.op \in {"package_create", "resource_create"})

\* C1: a run whose lookup raised NotFound and in which nothing failed issued
\* exactly one package_create and then exactly one resource_create, whose
\* package_id is the id of the record package_create returned.
C1_CreateThenAttach ==
    (CompletedClean /\ LookupNotFound) =>
        /\ Len(Mutations) = 2
        /\ Mutations[1].op = "package_create"
        /\ Mutations[2].op = "resource_create"
        /\ Mutations[2].args.package_id = Mutations[1].ret.id
        /\ Mutations[1].ret = pkg_dict

C1_Witness == CompletedClean /\ LookupNotFound /\ Count("resource_create") = 1

C3_CreateIssuedOnce ==
    /\ Cardinality(Named(catalog)) <= 1
    /\ created <= 1
    /\ (pc # "idle" /\ Named(catalog0) # {}) => Count("package_create") = 0

\* C3 as amended: the catalog never holds two records with the identifier;
\* package_create creates a record at most once over all runs (a call that
\* failed without creating it may be issued again by a later run); a run that
\* began with the record in the catalog issues no package_create, and its
\* lookup, when it returns, returns that record.
C3_CreatedOnce ==
    /\ Cardinality(Named(catalog)) <= 1
    /\ committed <= 1
    /\ (pc # "idle" /\ Named(catalog0) # {}) =>
          /\ Count("package_create") = 0
          /\ ~LookupNotFound
          /\ LookupFound => pkg_dict.id = catalog0[CHOOSE i \in Named(catalog0) : TRUE].id

C3_Witness ==
    /\ committed = 1
    /\ created = 2
    /\ pc = "done"
    /\ LookupFound
    /\ Named(catalog0) # {}

\* C4: a run that validated a declared license and found _find_license to
\* raise ended there with that failure: it issued no package_show, no
\* package_create and no resource_create, and left the catalog as it was.
C4_LicenseFailureAborts ==
    LicenseUnresolved =>
        /\ pc = "failed"
        /\ exc = "KeyError"
        /\ Count("package_show") = 0
        /\ Count("package_create") = 0
        /\ Count("resource_create") = 0
        /\ pkg_dict = NoRecord
        /\ catalog = catalog0

C4_Witness == LicenseUnresolved /\ pc = "failed" /\ Named(catalog) = {}

C8_FailuresPropagate ==
    /\ Count("package_create") > 0 => LookupNotFound
    /\ \A i \in FailedCalls : pc = "failed" /\ exc = calls[i].raised
    /\ LookupFailed => Count("package_create") = 0 /\ Count("resource_create") = 0

\* C8 as amended: a package_create is issued only after the lookup raised
\* NotFound; every other failure of a catalog call leaves main() as it was
\* raised, except an AttributeError raised by the lookup or a later call,
\* which the handler of line 225 catches, so that main() returns normally;
\* after a lookup failure other than NotFound nothing is created.
C8_FailuresPropagateButAttributeError ==
    /\ Count("package_create") > 0 => LookupNotFound
    /\ \A i \in FailedCalls :
          /\ exc = calls[i].raised
          /\ IF calls[i].raised = "AttributeError"
                /\ calls[i].op \in {"package_show", "package_create",
                                    "resource_create"}
             THEN pc = "done" /\ caught
             ELSE pc = "failed" /\ ~caught
    /\ LookupFailed =>
          /\ Count("package_create") = 0
          /\ Count("resource_create") = 0
          /\ catalog = catalog0

C8_Witness ==
    /\ LookupFailed
    /\ CallsOf("package_show")[1].raised = "CKANAPIError"
    /\ pc = "failed"
    /\ exc = "CKANAPIError"

\* C9: a run that obtained a record issues resource_create at most once, for
\* that record, and by its end exactly once if the record's resource list was
\* empty and not at all otherwise; a found record with no resources gets one
\* resource_create and no package_create.
C9_AttachIffNoResources ==
    pkg_dict # NoRecord =>
        /\ Count("resource_create") <= 1
        /\ \A i \in 1..Len(calls) :
              calls[i].op = "resource_create" =>
                  calls[i].args.package_id = pkg_dict.id
        /\ RunEnded =>
              Count("resource_create") =
                  IF pkg_dict.resources = <<>> THEN 1 ELSE 0
        /\ (RunEnded /\ LookupFound /\ pkg_dict.resources = <<>>) =>
              Count("package_create") = 0 /\ Count("resource_create") = 1

\* A run found a record whose resource was attached from another content of
\* the file, and attached nothing.
C9_Witness ==
    /\ pc = "done"
    /\ LookupFound
    /\ attached = 1
    /\ Len(pkg_dict.resources) = 1
    /\ pkg_dict.resources[1].hash # <<"sha256:", _hash_file_sha256(local_file)>>
    /\ Count("resource_create") = 0

\* The catalog holds exactly one record with the identifier, and it has a
\* resource.
RecordWithResource ==
    /\ Cardinality(Named(catalog)) = 1
    /\ \A i \in Named(catalog) : catalog[i].resources # <<>>

\* C10 as stated: the flow never attaches more than one resource, and a run
\* in which nothing failed leaves the record with a resource, with no second
\* package_create issued over all the runs so far.
C10_RecoversWithoutSecondCreate ==
    /\ attached <= 1
    /\ CompletedClean => RecordWithResource /\ created <= 1

\* C10 as amended: the flow never attaches more than one resource, and a run
\* in which nothing failed leaves the record with a resource, without
\* creating a second record: it issues package_create only if the catalog
\* held no such record when it began.
C10_RecoversWithoutSecondRecord ==
    /\ attached <= 1
    /\ CompletedClean =>
          /\ RecordWithResource
          /\ committed <= 1
          /\ Count("package_create") <= 1
          /\ Count("package_create") = 1 => Named(catalog0) = {}

\* An earlier run created the record and failed before attaching; this run
\* found it and attached the file.
C10_Witness ==
    /\ CompletedClean
    /\ committed = 1
    /\ Count("package_create") = 0
    /\ Count("resource_create") = 1
    /\ attached = 1

(***************************************************************************)
(* Properties of _find_license, checked under SpecFindLicense, and of      *)
(* _get_from_mcf, checked under SpecGetFromMcf.                            *)
(***************************************************************************)
\* C6: _find_license follows the stated policy: a non-empty license_url is
\* resolved through the URL index by the URL normalised to end with "/"; an
\* empty license_url is resolved through the title index by the sanitized
\* license_string, so that name "CC-BY 4.0" with url "" resolves without
\* raising when a known license has the title "CC-BY 4.0".
C6_ResolutionPolicy ==
    fn_ret # PyNone =>
        LET known == fn_args.known_licenses
        IN  /\ fn_args.license_url # <<>> =>
                  fn_ret = DictGet(UrlToLicenseId(known, Len(known)),
                                   NormalizeUrl(fn_args.license_url))
            /\ fn_args.license_url = <<>> =>
                  fn_ret = DictGet(StringToLicenseId(known, Len(known)),
                                   Sanitize(fn_args.license_string))
            /\ ( /\ fn_args.license_url = <<>>
                 /\ fn_args.license_string = <<"CC-BY", " ", "4.0">>
                 /\ \E i \in 1..Len(known) :
                        known[i].title = <<"CC-BY", " ", "4.0">> )
               => fn_ret.exc = "none"

\* Whether every segment of a path is a key of the mapping it indexes, the
\* value at such a path, and the first segment that is not.
RECURSIVE PathPresent(_, _)
PathPresent(v, keys) ==
    \/ keys = <<>>
    \/ /\ v.t = "dict"
       /\ Head(keys) \in DOMAIN v.m
       /\ PathPresent(v.m[Head(keys)], Tail(keys))

RECURSIVE NestedValue(_, _)
NestedValue(v, keys) ==
    IF keys = <<>> THEN v ELSE NestedValue(v.m[Head(keys)], Tail(keys))

RECURSIVE FirstMissing(_, _)
FirstMissing(v, keys) ==
    IF v.t # "dict" \/ Head(keys) \notin DOMAIN v.m
    THEN Head(keys)
    ELSE FirstMissing(v.m[Head(keys)], Tail(keys))

\* C7: _get_from_mcf raises nothing; for a path whose segments are all
\* present it returns the nested value and warns of nothing; for a path with
\* an absent segment, an intermediate value that is no mapping included, it
\* returns the empty string and emits one warning that names the path and
\* the first missing segment.
C7_NeverFailsItsCaller ==
    fn_ret # PyNone =>
        LET keys == Split(fn_args.dot_keys)
        IN  /\ fn_ret.exc = "none"
            /\ IF PathPresent(fn_args.mcf, keys)
               THEN fn_ret = Return(NestedValue(fn_args.mcf, keys), <<>>)
               ELSE fn_ret = Return(Str(<<>>),
                                    <<[dot_keys |-> fn_args.dot_keys,
                                       key |-> FirstMissing(fn_args.mcf, keys)]>>)

====
